---- MODULE Spec2Model ----
(***************************************************************************)
(* Model of ChemicalEngineeringKnowledgeBase (src/chemical_eng_kb.py):     *)
(* construction (cache load or PDF pipeline), the two cache files on disk, *)
(* and query_document_rag.                                                 *)
(*                                                                         *)
(* Every PDF path of the model has the same base name, so every            *)
(* construction uses the same pair of cache files (lines 43-45).           *)
(***************************************************************************)
EXTENDS Integers, Sequences, FiniteSets, TLC

\* ------------------------------------------------------------------ bounds

\* Number of ChemicalEngineeringKnowledgeBase objects constructed in a run.
NInst == 2
\* Largest k passed to query_document_rag.
MaxK == 3
\* Number of constructions that may be in progress at once in SpecRace.
MaxRacing == 2

Insts == 1..NInst

\* ------------------------------------------------------------- environment

\* The PDFs on disk, all with base name perry.pdf; NoPdf is the default
\* perrys_handbook_pdf_path = None.
NoPdf == "None"
PdfPaths == {"a/perry.pdf", "b/perry.pdf", "blank/perry.pdf", "bad/perry.pdf"}

\* TRUE when pdfium.PdfDocument(pdf_path) and the page loop succeed.
Readable(pdf_path) == pdf_path # "bad/perry.pdf"

\* all_content_chunks after the page loop: table fragments and word windows
\* in page order.
AllContentChunks(pdf_path) ==
    CASE pdf_path = "a/perry.pdf" -> <<"a0", "a1">>
      [] pdf_path = "b/perry.pdf" -> <<"b0", "b1", "b2">>
      [] OTHER -> <<>>

QueryTexts == {"q0", "q1"}

\* SentenceTransformer.encode on one text: a fixed vector per text (vectors
\* are one-dimensional here).
Encode(text) ==
    CASE text = "a0" -> 0
      [] text = "a1" -> 10
      [] text = "b0" -> 3
      [] text = "b1" -> 14
      [] text = "b2" -> 30
      [] text = "q0" -> 1
      [] text = "q1" -> 13
      [] OTHER -> 50

\* encode on a list of texts keeps the order of the list.
EncodeAll(texts) == [i \in 1..Len(texts) |-> Encode(texts[i])]

\* --------------------------------------------------------- values

\* self.vector_store: None, or a faiss.IndexFlatL2 with its vectors in
\* insertion order.
NoIndex == [some |-> FALSE, vecs |-> <<>>]
IndexFlatL2(vecs) == [some |-> TRUE, vecs |-> vecs]

\* A cache file: absent, unparseable (a write that failed half way), or
\* holding data.  by is the construction that wrote it, 0 for a run of the
\* program that ended before the behaviour starts.
Absent == [st |-> "absent", by |-> 0, data |-> <<>>]
Truncated(p) == [st |-> "corrupt", by |-> p, data |-> <<>>]

\* pickle.dump(self.text_chunks, f) after open(chunks_cache_path, 'wb').
PickleDump(chunks, p) == [st |-> "ok", by |-> p, data |-> chunks]
\* pickle.load(f): the list that was dumped.
PickleLoad(file) == file.data

\* The index written before its vectors were added.
WriteIndexBeforeAdd(index, p) == [st |-> "ok", by |-> p, data |-> <<>>]

\* faiss.write_index(self.vector_store, faiss_cache_path).
WriteIndex(index, p) == [st |-> "ok", by |-> p, data |-> index.vecs]
\* faiss.read_index(faiss_cache_path).
ReadIndex(file) == IndexFlatL2(file.data)

\* os.path.exists(path).
Exists(file) == file.st # "absent"

VARIABLES
    kb,          \* the objects, by number
    chunksFile,  \* <cache_dir>/perry.pdf_chunks.pkl
    faissFile,   \* <cache_dir>/perry.pdf_vector_store.faiss
    answer,      \* the call of query_document_rag a behaviour ends with
    reply,       \* the call of an agent's execute_task a behaviour ends with
    extraction,  \* the page loop of _load_and_index_pdf on one document
    chunking     \* the word-window loop of _load_and_index_pdf on one paragraph

vars == <<kb, chunksFile, faissFile, answer, reply, extraction, chunking>>

\* The object before __init__ runs.
NewKb == [pc |-> "new", pdf_path |-> NoPdf, force |-> FALSE,
          embedding_model |-> FALSE, vector_store |-> NoIndex,
          text_chunks |-> <<>>,
          \* history, not attributes of the object: the cache files as line 49
          \* saw them, the exception raised during construction, and where
          \* a completed corpus came from
          found |-> <<Absent, Absent>>, error |-> "none", source |-> "none"]

NoAnswer == [inst |-> 0, query |-> "", k |-> 0, ids |-> <<>>,
             raised |-> FALSE, items |-> <<>>]

\* The cache directory at the start: empty, or as an earlier run left it
\* after it built a/perry.pdf and wrote both files (lines 70-76).
EarlierRun ==
    LET chunks == AllContentChunks("a/perry.pdf")
    IN  <<PickleDump(chunks, 0), WriteIndex(IndexFlatL2(EncodeAll(chunks)), 0)>>

InitialCaches == {<<Absent, Absent>>, EarlierRun}

NoReply == [agent |-> "none", inst |-> 0, raised |-> FALSE,
            status |-> "none", rag_context_used |-> <<>>]

\* The page loop and the word-window loop before they start.
NoExtraction == [pc |-> "idle", has_text |-> <<>>, i |-> 0,
                 all_content_chunks |-> <<>>, log |-> <<>>]
NoChunking == [pc |-> "idle", words |-> <<>>, chunk_size |-> 0,
               chunk_overlap |-> 0, j |-> 0, chunks |-> <<>>]

Init ==
    /\ kb = [p \in Insts |-> NewKb]
    /\ \E c \in InitialCaches : chunksFile = c[1] /\ faissFile = c[2]
    /\ answer = NoAnswer
    /\ reply = NoReply
    /\ extraction = NoExtraction
    /\ chunking = NoChunking

\* ---------------------------------------------------------- construction

\* Line 49 without its test of force_reprocess.
UseCacheIgnoringForce(force, cf, ff) == Exists(cf) /\ Exists(ff)

\* Line 49 with "or" between the two tests of existence.
UseCacheEitherFile(force, cf, ff) == ~force /\ (Exists(cf) \/ Exists(ff))

\* Line 49: the cache is read when no reprocessing is forced and both
\* files exist.
UseCache(force, cf, ff) == ~force /\ Exists(cf) /\ Exists(ff)

\* __init__, lines 29-49 and 59-61, up to the first read of a cache file or
\* the first step of the pipeline.
InitKb(pdf, force, cf, ff) ==
    IF pdf = NoPdf
    THEN [NewKb EXCEPT !.pc = "done"]
    ELSE [NewKb EXCEPT !.pc = IF UseCache(force, cf, ff)
                               THEN "load_chunks" ELSE "build",
                       !.pdf_path = pdf,
                       !.force = force,
                       !.embedding_model = TRUE,
                       !.found = <<cf, ff>>]

\* Objects are numbered in the order their constructors are called.
NextToConstruct(p) ==
    /\ kb[p].pc = "new"
    /\ p > 1 => kb[p - 1].pc # "new"

Idle(p) == kb[p].pc \in {"new", "done", "raised"}
Racing == {p \in Insts : ~Idle(p)}

\* A behaviour is a number of constructions followed by calls of
\* query_document_rag or of an agent's execute_task, which change nothing:
\* answer and reply hold the result of the one call the behaviour ends with.
Construct(p, pdf, force) ==
    /\ NextToConstruct(p)
    /\ answer = NoAnswer /\ reply = NoReply
    /\ kb' = [kb EXCEPT ![p] = InitKb(pdf, force, chunksFile, faissFile)]
    /\ UNCHANGED <<chunksFile, faissFile, answer, reply, extraction, chunking>>

\* Line 47 raises (the embedding model cannot be loaded): the exception
\* leaves __init__ and the caller gets no object.
ConstructRaises(p) ==
    /\ NextToConstruct(p)
    /\ answer = NoAnswer /\ reply = NoReply
    /\ kb' = [kb EXCEPT ![p] = [NewKb EXCEPT !.pc = "raised",
                                             !.error = "ModelLoadError"]]
    /\ UNCHANGED <<chunksFile, faissFile, answer, reply, extraction, chunking>>

\* Lines 52-53, and line 56-58 when they raise.
LoadChunksStep(k, cf) ==
    IF cf.st = "ok"
    THEN [k EXCEPT !.text_chunks = PickleLoad(cf), !.pc = "load_index"]
    ELSE [k EXCEPT !.pc = "build"]

LoadChunks(p) ==
    /\ kb[p].pc = "load_chunks"
    /\ kb' = [kb EXCEPT ![p] = LoadChunksStep(kb[p], chunksFile)]
    /\ UNCHANGED <<chunksFile, faissFile, answer, reply, extraction, chunking>>

\* Lines 54-55, and line 56-58 when faiss.read_index raises.
LoadIndexStep(k, ff) ==
    IF ff.st = "ok"
    THEN [k EXCEPT !.vector_store = ReadIndex(ff), !.pc = "done",
                   !.source = "cache"]
    ELSE [k EXCEPT !.pc = "build"]

LoadIndex(p) ==
    /\ kb[p].pc = "load_index"
    /\ kb' = [kb EXCEPT ![p] = LoadIndexStep(kb[p], faissFile)]
    /\ UNCHANGED <<chunksFile, faissFile, answer, reply, extraction, chunking>>

\* chunk.strip() is non-empty.
NonBlank(chunk) == chunk \notin {"", " "}

\* _load_and_index_pdf, lines 85-160.  error names the exception it raises.
LoadAndIndexPdf(k, encodeOk) ==
    IF ~Readable(k.pdf_path)
    THEN [k EXCEPT !.error = "RuntimeError"]
    ELSE LET chunks == SelectSeq(AllContentChunks(k.pdf_path), NonBlank)
         IN  IF chunks = <<>>
             THEN [k EXCEPT !.text_chunks = chunks, !.error = "ValueError"]
             ELSE IF ~encodeOk
             THEN [k EXCEPT !.text_chunks = chunks, !.error = "EncodeError"]
             ELSE [k EXCEPT !.text_chunks = chunks,
                            !.vector_store = IndexFlatL2(EncodeAll(chunks))]

\* The except clause without line 82.
OnBuildErrorKeepingModel(k) == [k EXCEPT !.pc = "done"]

\* The except clause of _initialize_and_build_rag, lines 80-82.
OnBuildError(k) == [k EXCEPT !.embedding_model = FALSE, !.pc = "done"]

\* _initialize_and_build_rag going on to line 70 whatever the pipeline did.
BuildStepSavingAnyway(k, encodeOk) ==
    [LoadAndIndexPdf(k, encodeOk) EXCEPT !.pc = "save_chunks"]

\* _initialize_and_build_rag, lines 65-69 and 77-82: the pipeline, then the
\* test that decides whether the cache is written.
BuildStep(k, encodeOk) ==
    LET r == LoadAndIndexPdf(k, encodeOk)
    IN  IF r.error # "none"
        THEN OnBuildError(r)
        ELSE IF r.text_chunks # <<>> /\ r.vector_store.some
        THEN [r EXCEPT !.pc = "save_chunks"]
        ELSE [r EXCEPT !.embedding_model = FALSE, !.pc = "done"]

Build(p, encodeOk) ==
    /\ kb[p].pc = "build"
    /\ kb' = [kb EXCEPT ![p] = BuildStep(kb[p], encodeOk)]
    /\ UNCHANGED <<chunksFile, faissFile, answer, reply, extraction, chunking>>

\* Lines 70-72.
SaveChunks(p) ==
    /\ kb[p].pc = "save_chunks"
    /\ chunksFile' = PickleDump(kb[p].text_chunks, p)
    /\ kb' = [kb EXCEPT ![p].pc = "save_index"]
    /\ UNCHANGED <<faissFile, answer, reply, extraction, chunking>>

\* Lines 71-72 raise: open() fails and the file is as it was, or
\* pickle.dump fails after open() truncated the file.
SaveChunksFails(p, opened) ==
    /\ kb[p].pc = "save_chunks"
    /\ chunksFile' = IF opened THEN Truncated(p) ELSE chunksFile
    /\ kb' = [kb EXCEPT ![p] = OnBuildError([kb[p] EXCEPT !.error = "WriteChunksError"])]
    /\ UNCHANGED <<faissFile, answer, reply, extraction, chunking>>

\* Lines 74-76.
SaveIndex(p) ==
    /\ kb[p].pc = "save_index"
    /\ faissFile' = WriteIndex(kb[p].vector_store, p)
    /\ kb' = [kb EXCEPT ![p].pc = "done", ![p].source = "pipeline"]
    /\ UNCHANGED <<chunksFile, answer, reply, extraction, chunking>>

\* Line 75 raises: the file could not be opened and is as it was, or the
\* write failed after the file was truncated.
SaveIndexFails(p, opened) ==
    /\ kb[p].pc = "save_index"
    /\ faissFile' = IF opened THEN Truncated(p) ELSE faissFile
    /\ kb' = [kb EXCEPT ![p] = OnBuildError([kb[p] EXCEPT !.error = "WriteIndexError"])]
    /\ UNCHANGED <<chunksFile, answer, reply, extraction, chunking>>

\* ---------------------------------------------------------------- query

SentinelMsg == "RAG system not initialized or PDF not processed."

\* Squared L2 distance of two one-dimensional vectors.
L2(u, v) == (u - v) * (u - v)

\* Number of vectors that come before vector i in the result of a search:
\* the nearer ones, and of the equally near those inserted earlier (no two
\* vectors of one index above are equally near a query of QueryTexts).
Rank(vecs, qv, i) ==
    Cardinality({j \in 1..Len(vecs) :
        \/ L2(vecs[j], qv) < L2(vecs[i], qv)
        \/ L2(vecs[j], qv) = L2(vecs[i], qv) /\ j < i})

\* IndexFlatL2.search(query, k): the ids (positions, from 0) of the nearest
\* vectors, nearest first; with fewer than k vectors the rest are -1.
Search(vecs, qv, k) ==
    [j \in 1..k |->
        IF j <= Len(vecs)
        THEN (CHOOSE i \in 1..Len(vecs) : Rank(vecs, qv, i) = j - 1) - 1
        ELSE -1]

\* Python's list[i] for an int i: a negative i counts from the end.
InRange(list, i) == -Len(list) <= i /\ i < Len(list)
Subscript(list, i) == IF i >= 0 THEN list[i + 1] ELSE list[Len(list) + i + 1]

\* Lines 189-192: the search and the lookup of each id in text_chunks.
\* raised is the IndexError of line 192.
Retrieve(k, query_text, n) ==
    LET ids == Search(k.vector_store.vecs, Encode(query_text), n)
    IN  IF \E j \in 1..n : ~InRange(k.text_chunks, ids[j])
        THEN [ids |-> ids, raised |-> TRUE, items |-> <<>>]
        ELSE [ids |-> ids, raised |-> FALSE,
              items |-> [j \in 1..n |-> Subscript(k.text_chunks, ids[j])]]

NotInitialized == [ids |-> <<>>, raised |-> FALSE, items |-> <<SentinelMsg>>]

\* Line 186 testing the index alone.
QueryTestingIndexOnly(k, query_text, n) ==
    IF ~k.vector_store.some
    THEN NotInitialized
    ELSE Retrieve(k, query_text, n)

\* query_document_rag, lines 186-192.
QueryDocumentRag(k, query_text, n) ==
    IF ~k.vector_store.some \/ ~k.embedding_model
    THEN NotInitialized
    ELSE Retrieve(k, query_text, n)

Query(p, query_text, n) ==
    /\ kb[p].pc = "done"
    /\ answer = NoAnswer
    /\ LET r == QueryDocumentRag(kb[p], query_text, n)
       IN  answer' = [inst |-> p, query |-> query_text, k |-> n,
                      ids |-> r.ids, raised |-> r.raised, items |-> r.items]
    /\ UNCHANGED <<kb, chunksFile, faissFile, reply, extraction, chunking>>

\* --------------------------------------------------------- specifications

Steps(p) ==
    \/ LoadChunks(p)
    \/ LoadIndex(p)
    \/ \E encodeOk \in BOOLEAN : Build(p, encodeOk)
    \/ SaveChunks(p)
    \/ \E opened \in BOOLEAN : SaveChunksFails(p, opened)
    \/ SaveIndex(p)
    \/ \E opened \in BOOLEAN : SaveIndexFails(p, opened)

\* One caller: a constructor is called only when no other is running.
ConstructAlone(p, pdf, force) ==
    /\ Racing = {}
    /\ Construct(p, pdf, force)

ConstructAloneRaises(p) ==
    /\ Racing = {}
    /\ ConstructRaises(p)

\* The one caller calls query_document_rag between constructions.
QueryAlone(p, query_text, n) ==
    /\ Racing = {}
    /\ Query(p, query_text, n)

\* The constructor's arguments: without a PDF path force_reprocess is not
\* read.
CtorArgs == {<<NoPdf, FALSE>>} \cup (PdfPaths \X BOOLEAN)

Next ==
    \E p \in Insts :
        \/ \E a \in CtorArgs : ConstructAlone(p, a[1], a[2])
        \/ ConstructAloneRaises(p)
        \/ Steps(p)
        \/ \E q \in QueryTexts, n \in 1..MaxK : QueryAlone(p, q, n)

Spec == Init /\ [][Next]_vars

\* Several callers: up to MaxRacing constructors run at once, their steps
\* interleaved.
ConstructRacing(p, pdf, force) ==
    /\ Cardinality(Racing) < MaxRacing
    /\ Construct(p, pdf, force)

ConstructRacingRaises(p) ==
    /\ Cardinality(Racing) < MaxRacing
    /\ ConstructRaises(p)

NextRace ==
    \E p \in Insts :
        \/ \E a \in CtorArgs : ConstructRacing(p, a[1], a[2])
        \/ ConstructRacingRaises(p)
        \/ Steps(p)
        \/ \E q \in QueryTexts, n \in 1..MaxK : Query(p, q, n)

SpecRace == Init /\ [][NextRace]_vars

\* ------------------------------------------------------------------ claims

\* The object answers queries: line 186 does not return the sentinel.
Answers(k) == k.vector_store.some /\ k.embedding_model

\* The object the caller holds after the constructor returned.
Returned(p) == kb[p].pc = "done"

\* Both files exist and parse: what lines 49-55 accept.
Parses(cf, ff) == cf.st = "ok" /\ ff.st = "ok"

Min(a, b) == IF a < b THEN a ELSE b

\* C1: in every object that answers queries, text_chunks has as many
\* entries as the index, and every id i >= 0 a search returned was resolved
\* to text_chunks[i], the fragment whose vector is at position i.
C1_PositionalInvariant ==
    \A p \in Insts :
        Returned(p) /\ Answers(kb[p]) =>
            LET tc == kb[p].text_chunks
                vecs == kb[p].vector_store.vecs
            IN  /\ Len(tc) = Len(vecs)
                /\ answer.inst = p =>
                       /\ ~answer.raised
                       /\ \A j \in 1..answer.k :
                              answer.ids[j] >= 0 =>
                                  /\ answer.items[j] = tc[answer.ids[j] + 1]
                                  /\ vecs[answer.ids[j] + 1] = Encode(tc[answer.ids[j] + 1])

\* C2: a construction without force_reprocess takes its corpus from the
\* cache only if both files existed, parsed and agreed in count.
C2_CacheLoadValidated ==
    \A p \in Insts :
        Returned(p) /\ ~kb[p].force /\ kb[p].source = "cache" =>
            /\ Parses(kb[p].found[1], kb[p].found[2])
            /\ Len(kb[p].found[1].data) = Len(kb[p].found[2].data)

\* C3: the two files a construction loads as its corpus were written by one
\* build: a fragment file is never loaded with the index file of an
\* earlier build.
C3_CachePairOfOneBuild ==
    \A p \in Insts :
        Returned(p) /\ kb[p].source = "cache" =>
            kb[p].found[1].by = kb[p].found[2].by

\* C4: a query with k >= 1 of an object that answers returns min(k, n)
\* results for a corpus of n fragments, none of them from the id -1 and no
\* fragment twice.
C4_KBounding ==
    answer.inst # 0 /\ Answers(kb[answer.inst]) =>
        /\ ~answer.raised
        /\ Len(answer.items) = Min(answer.k, Len(kb[answer.inst].text_chunks))
        /\ \A j \in 1..Len(answer.ids) : answer.ids[j] >= 0
        /\ \A i, j \in 1..Len(answer.ids) : i # j => answer.ids[i] # answer.ids[j]

\* The PDF could not be opened or parsed, or it held no fragment.
DocumentFailed(k) == k.error \in {"RuntimeError", "ValueError"}

\* C5 as claimed: a construction whose document failed to load, or was
\* empty, does not return an object to its caller.
C5_DocumentFailureReachesCaller ==
    \A p \in Insts : DocumentFailed(kb[p]) => ~Returned(p)

\* C5 as amended: a document failure or an empty document is caught inside
\* the constructor, which returns an object with embedding_model and
\* vector_store unset and no cache file written by it, and every query of
\* that object returns the sentinel.
C5_DocumentFailureAbsorbed ==
    \A p \in Insts :
        DocumentFailed(kb[p]) =>
            /\ Returned(p)
            /\ ~kb[p].embedding_model
            /\ ~kb[p].vector_store.some
            /\ chunksFile.by # p /\ faissFile.by # p
            /\ \A q \in QueryTexts, n \in 1..MaxK :
                   QueryDocumentRag(kb[p], q, n) = NotInitialized
            /\ answer.inst = p => answer.items = <<SentinelMsg>>

C5_Witness ==
    /\ kb[1].error = "RuntimeError"
    /\ kb[2].error = "ValueError"
    /\ answer.inst = 2

\* The build did not succeed: no PDF path, or an exception at any step.
BuildFailed(k) == k.pdf_path = NoPdf \/ k.error # "none"

\* C6: a query of an object whose build failed at any step returns the
\* sentinel list, and does not raise.
C6_FailedBuildQueriesSentinel ==
    answer.inst # 0 /\ BuildFailed(kb[answer.inst]) =>
        /\ ~answer.raised
        /\ answer.items = <<SentinelMsg>>

C6_Witness ==
    /\ answer.inst # 0
    /\ kb[answer.inst].error = "WriteIndexError"
    /\ kb[answer.inst].vector_store.some
    /\ answer.items = <<SentinelMsg>>

\* C7: a returned object is fully built (text_chunks, vector_store and
\* embedding_model set, one vector per fragment) or has none of the three.
C7_AllOrNothing ==
    \A p \in Insts :
        Returned(p) =>
            \/ /\ kb[p].text_chunks # <<>>
               /\ Answers(kb[p])
               /\ Len(kb[p].text_chunks) = Len(kb[p].vector_store.vecs)
            \/ /\ kb[p].text_chunks = <<>>
               /\ ~kb[p].vector_store.some
               /\ ~kb[p].embedding_model

\* The file is one that was on disk when construction p began.
FromBefore(file, p, i) == Exists(kb[p].found[i]) /\ file = kb[p].found[i]

Latest(p) == \A r \in Insts : r > p => kb[r].pc = "new"

C9_CacheRoundTrip ==
    \A p \in Insts :
        /\ p + 1 \in Insts
        /\ kb[p].found = <<Absent, Absent>>
        /\ kb[p].source = "pipeline"
        /\ Returned(p + 1)
        /\ kb[p + 1].pdf_path = kb[p].pdf_path
        /\ ~kb[p + 1].force
        => /\ kb[p + 1].source = "cache"
           /\ kb[p + 1].error = "none"
           /\ kb[p + 1].text_chunks = kb[p].text_chunks
           /\ kb[p + 1].vector_store = kb[p].vector_store
           /\ \A q \in QueryTexts, n \in 1..MaxK :
                  QueryDocumentRag(kb[p + 1], q, n) = QueryDocumentRag(kb[p], q, n)
           /\ answer.inst = p + 1 =>
                  /\ ~answer.raised
                  /\ answer.items = QueryDocumentRag(kb[p], answer.query, answer.k).items

C9_Witness ==
    /\ kb[1].found = <<Absent, Absent>>
    /\ kb[1].source = "pipeline"
    /\ kb[2].pdf_path = kb[1].pdf_path
    /\ kb[2].source = "cache"
    /\ ~kb[2].force
    /\ answer.inst = 2
    /\ answer.items = <<"b1", "b0">>

\* C10: a build writes only after its pipeline succeeded in memory, and
\* once two racing builds have both finished, the fragment file and the index
\* file on disk agree in count and position.
C10_RacingBuildsLeaveConsistentCache ==
    /\ \A p \in Insts :
           kb[p].pc \in {"save_chunks", "save_index"} =>
               /\ kb[p].text_chunks # <<>>
               /\ kb[p].vector_store = IndexFlatL2(EncodeAll(kb[p].text_chunks))
    /\ (\A p \in Insts : Returned(p) /\ kb[p].source = "pipeline") =>
           /\ Parses(chunksFile, faissFile)
           /\ faissFile.data = EncodeAll(chunksFile.data)

\* Exactly one of the two cache files existed when line 49 looked.
HalfCache(found) == Exists(found[1]) # Exists(found[2])

\* The pipeline ran to the end of line 76: corpus and index built and both
\* files written.
BuiltAndSaved(k) == k.pc = "done" /\ k.error = "none" /\ k.source = "pipeline"

\* C14: a construction without force_reprocess that finds one cache file
\* without the other (either one) does not read the cache; it runs the
\* pipeline, and when the build succeeds both files exist, hold the same
\* number of entries, and are the object's fragments and their vectors.
C14_HalfCacheIsMiss ==
    /\ LET files == <<Absent, chunksFile, faissFile>>
       IN  \A cf, ff \in 1..3 :
               HalfCache(<<files[cf], files[ff]>>) =>
                   ~UseCache(FALSE, files[cf], files[ff])
    /\ \A p \in Insts :
           ~kb[p].force /\ HalfCache(kb[p].found) =>
               /\ kb[p].pc \notin {"load_chunks", "load_index"}
               /\ kb[p].source # "cache"
               /\ BuiltAndSaved(kb[p]) /\ Latest(p) =>
                      /\ chunksFile = PickleDump(kb[p].text_chunks, p)
                      /\ faissFile = WriteIndex(kb[p].vector_store, p)
                      /\ Len(chunksFile.data) = Len(faissFile.data)
                      /\ faissFile.data = EncodeAll(chunksFile.data)
                      /\ kb[p].text_chunks # <<>>

\* An object built over the fragment file that an earlier construction
\* left without an index file.
C14_Witness ==
    \E p \in Insts :
        /\ ~kb[p].force
        /\ kb[p].found[1].st = "ok" /\ kb[p].found[2] = Absent
        /\ kb[p].found[1].data # kb[p].text_chunks
        /\ BuiltAndSaved(kb[p])
        /\ chunksFile.by = p /\ faissFile.by = p

\* C15: a construction whose document has no non-blank fragment writes
\* neither cache file, and when it found the cache directory empty, the
\* directory is empty after it.
C15_EmptyDocumentWritesNothing ==
    \A p \in Insts :
        kb[p].error = "ValueError" =>
            /\ kb[p].pc = "done"
            /\ chunksFile.by # p /\ faissFile.by # p
            /\ kb[p].found = <<Absent, Absent>> /\ Latest(p) =>
                   ~Exists(chunksFile) /\ ~Exists(faissFile)

C15_Witness ==
    \E p \in Insts :
        /\ kb[p].pdf_path = "blank/perry.pdf"
        /\ kb[p].error = "ValueError"
        /\ kb[p].pc = "done"
        /\ kb[p].found = <<Absent, Absent>>
        /\ chunksFile = Absent /\ faissFile = Absent

\* ------------------------------------------------------------ the page loop

\* Pages of the document the page loop runs on, and tables camelot returns
\* for one page.
NPages == 2
MaxTables == 2

\* camelot.read_pdf for one page and one flavor raises, or returns a list of
\* tables.  A table is "ok", "empty" (table.df.empty) or "bad" (its
\* to_markdown raises).
TableKinds == {"ok", "empty", "bad"}
TableLists == UNION {[1..n -> TableKinds] : n \in 0..MaxTables}
Raises == <<"raises">>
Detections == TableLists \cup {Raises}

\* Line 115: the fragment of table table_idx of page i + 1.
TableText(page, table_idx) == [kind |-> "table", page |-> page, idx |-> table_idx]
\* Lines 127-135: the word windows of the text of page i + 1.
PageText(page) == [kind |-> "text", page |-> page, idx |-> 0]

\* The fallback run for every page.
NeedsFallbackAlways(tables) == TRUE

\* Line 106, "if not tables": the list lattice returned is empty.
NeedsFallback(tables) == tables = <<>>

\* Lines 109-116 from table table_idx on: the fragments appended until the
\* loop ends or a table raises.
RECURSIVE TableFragments(_, _, _)
TableFragments(tables, page, table_idx) ==
    IF table_idx >= Len(tables) \/ tables[table_idx + 1] = "bad"
    THEN <<>>
    ELSE IF tables[table_idx + 1] = "empty"
    THEN TableFragments(tables, page, table_idx + 1)
    ELSE <<TableText(page, table_idx)>> \o TableFragments(tables, page, table_idx + 1)

\* Lines 101-118 for one page: the fragments appended, whether the stream
\* flavor was run, and whether the except clause of line 117 was entered.
\* primary is the number of tables lattice returned, -1 when it raised.
PageTables(lattice, stream, page) ==
    IF lattice = Raises
    THEN [appended |-> <<>>, primary |-> -1, stream_tried |-> FALSE,
          raised |-> TRUE]
    ELSE IF NeedsFallback(lattice)
    THEN [appended |-> IF stream = Raises THEN <<>>
                       ELSE TableFragments(stream, page, 0),
          primary |-> Len(lattice), stream_tried |-> TRUE,
          raised |-> stream = Raises \/ \E t \in 1..Len(stream) : stream[t] = "bad"]
    ELSE [appended |-> TableFragments(lattice, page, 0),
          primary |-> Len(lattice), stream_tried |-> FALSE,
          raised |-> \E t \in 1..Len(lattice) : lattice[t] = "bad"]

\* Lines 96-138: one iteration of the page loop.
ExtractPage(lattice, stream) ==
    /\ extraction.pc = "pages"
    /\ extraction.i < Len(extraction.has_text)
    /\ LET page == extraction.i + 1
           t == PageTables(lattice, stream, page)
           text == IF extraction.has_text[page] THEN <<PageText(page)>> ELSE <<>>
       IN  extraction' =
               [extraction EXCEPT
                   !.i = page,
                   !.all_content_chunks = @ \o t.appended \o text,
                   !.log = Append(@, [primary |-> t.primary,
                                      stream_tried |-> t.stream_tried,
                                      raised |-> t.raised])]
    /\ UNCHANGED <<kb, chunksFile, faissFile, answer, reply, chunking>>

\* Lines 98 and 121-124 raise outside the inner try: line 141 turns it into
\* a RuntimeError.
PageRaises ==
    /\ extraction.pc = "pages"
    /\ extraction.i < Len(extraction.has_text)
    /\ extraction' = [extraction EXCEPT !.pc = "RuntimeError"]
    /\ UNCHANGED <<kb, chunksFile, faissFile, answer, reply, chunking>>

\* Lines 139-150: the loop is over; no fragment at all is a ValueError (no
\* fragment of the loop is blank, so line 143 drops none).
FinishExtraction ==
    /\ extraction.pc = "pages"
    /\ extraction.i = Len(extraction.has_text)
    /\ extraction' = [extraction EXCEPT
                         !.pc = IF extraction.all_content_chunks = <<>>
                                THEN "ValueError" ELSE "extracted"]
    /\ UNCHANGED <<kb, chunksFile, faissFile, answer, reply, chunking>>

\* The documents: up to NPages pages, each with text or without.
InitPages ==
    /\ kb = [p \in Insts |-> NewKb]
    /\ chunksFile = Absent
    /\ faissFile = Absent
    /\ answer = NoAnswer
    /\ reply = NoReply
    /\ chunking = NoChunking
    /\ \E n \in 0..NPages : \E has_text \in [1..n -> BOOLEAN] :
           extraction = [NoExtraction EXCEPT !.pc = "pages", !.has_text = has_text]

NextPages ==
    \/ \E lattice \in Detections :
           \E stream \in IF NeedsFallback(lattice) THEN Detections ELSE {<<>>} :
               ExtractPage(lattice, stream)
    \/ PageRaises
    \/ FinishExtraction

SpecPages == InitPages /\ [][NextPages]_vars

\* The fragments of kind kind that page page has in all_content_chunks.
FragmentsOf(kind, page) ==
    {f \in 1..Len(extraction.all_content_chunks) :
        /\ extraction.all_content_chunks[f].kind = kind
        /\ extraction.all_content_chunks[f].page = page}

\* C11: when table extraction raised for a page, at detection or at the
\* rendering of any of its tables, no table fragment of that page is among
\* the fragments, and its text fragments are.
C11_FailedPageHasNoTables ==
    \A page \in 1..extraction.i :
        extraction.log[page].raised =>
            /\ FragmentsOf("table", page) = {}
            /\ extraction.has_text[page] => FragmentsOf("text", page) # {}

MaxWords == 5
MaxChunkSize == 3

\* The words para.split() can return: whitespace-free strings, so that
\* " ".join is one-to-one on them and a chunk is modelled by its word list.
Words == {"u", "v"}
Paragraphs == UNION {[1..n -> Words] : n \in 1..MaxWords}

\* words[j:j + chunk_size], a Python slice: clipped at the end of the list.
Window(words, j, chunk_size) ==
    SubSeq(words, j + 1, Min(j + chunk_size, Len(words)))

NextStartNoOverlap(j, chunk_size, chunk_overlap) == j + chunk_size

\* The step of range(0, len(words), chunk_size - chunk_overlap), line 132.
NextStart(j, chunk_size, chunk_overlap) == j + (chunk_size - chunk_overlap)

\* Lines 132-134: one iteration of the window loop.
EmitWindow ==
    /\ chunking.pc = "windows"
    /\ chunking.j < Len(chunking.words)
    /\ chunking' = [chunking EXCEPT
           !.chunks = Append(@, Window(chunking.words, chunking.j,
                                       chunking.chunk_size)),
           !.j = NextStart(@, chunking.chunk_size, chunking.chunk_overlap)]
    /\ UNCHANGED <<kb, chunksFile, faissFile, answer, reply, extraction>>

\* Line 132: the range is exhausted.
ParagraphDone ==
    /\ chunking.pc = "windows"
    /\ chunking.j >= Len(chunking.words)
    /\ chunking' = [chunking EXCEPT !.pc = "done"]
    /\ UNCHANGED <<kb, chunksFile, faissFile, answer, reply, extraction>>

\* Line 130-131: a paragraph with at least one word, and the two parameters
\* of the call with 0 <= chunk_overlap < chunk_size.
InitChunks ==
    /\ kb = [p \in Insts |-> NewKb]
    /\ chunksFile = Absent /\ faissFile = Absent
    /\ answer = NoAnswer /\ reply = NoReply /\ extraction = NoExtraction
    /\ \E words \in Paragraphs : \E chunk_size \in 1..MaxChunkSize :
       \E chunk_overlap \in 0..(chunk_size - 1) :
           chunking = [pc |-> "windows", words |-> words,
                       chunk_size |-> chunk_size,
                       chunk_overlap |-> chunk_overlap,
                       j |-> 0, chunks |-> <<>>]

NextChunks == EmitWindow \/ ParagraphDone

SpecChunks == InitChunks /\ [][NextChunks]_vars

CeilDiv(a, b) == (a + b - 1) \div b
Max(a, b) == IF a > b THEN a ELSE b

\* C12: a chunked paragraph of W words has ceil(max(W - O, 1) / (S - O))
\* windows.
C12_ChunkCount ==
    chunking.pc = "done" =>
        Len(chunking.chunks) =
            CeilDiv(Max(Len(chunking.words) - chunking.chunk_overlap, 1),
                    chunking.chunk_size - chunking.chunk_overlap)

\* The first n words of a window (all of it when it is shorter).
FirstWords(window, n) == SubSeq(window, 1, Min(n, Len(window)))

RECURSIVE Reconstruct(_, _)
Reconstruct(chunks, n) ==
    IF chunks = <<>> THEN <<>>
    ELSE FirstWords(Head(chunks), n) \o Reconstruct(Tail(chunks), n)

\* C13: window j holds the words [j*(S-O), j*(S-O)+S) of the paragraph, no
\* window is empty, and once the paragraph is chunked the first S-O words
\* of the windows, in order, are the paragraph.
C13_NoWordDropped ==
    LET S == chunking.chunk_size
        O == chunking.chunk_overlap
        W == Len(chunking.words)
    IN /\ \A n \in 1..Len(chunking.chunks) :
              /\ chunking.chunks[n] # <<>>
              /\ chunking.chunks[n] =
                     SubSeq(chunking.words, (n - 1) * (S - O) + 1,
                            Min((n - 1) * (S - O) + S, W))
       /\ chunking.pc = "done" =>
              Reconstruct(chunking.chunks, S - O) = chunking.words

\* An overlapping chunking whose last window is partial.
C13_Witness ==
    /\ chunking.pc = "done"
    /\ chunking.chunk_overlap >= 1
    /\ Len(chunking.chunks) >= 3
    /\ Len(chunking.chunks[Len(chunking.chunks)]) < chunking.chunk_size
    /\ Reconstruct(chunking.chunks, chunking.chunk_size
                                      - chunking.chunk_overlap) = chunking.words

\* ------------------------------------------------------------------------
\* The agents (heat_transfer_agent.py, reactor_design_agent.py).
\* ------------------------------------------------------------------------

Agents == {"HeatTransferAgent", "ReactorDesignAgent"}

\* The k both agents pass to query_document_rag (line 57).
AgentK == 3

\* What execute_task did: raised an exception, or returned a dictionary
\* with these status and rag_context_used.
TaskRaised == [raised |-> TRUE, status |-> "none", rag_context_used |-> <<>>]
TaskReturned(status, rag_chunks) ==
    [raised |-> FALSE, status |-> status, rag_context_used |-> rag_chunks]

\* Lines 55-59 of either agent: rag_chunks once r, the result of
\* query_document_rag when line 57 calls it, is there.
RagChunks(k, r) ==
    IF k.vector_store.some
    THEN IF r.items # <<>> /\ r.items[1] = SentinelMsg THEN <<>> ELSE r.items
    ELSE <<>>

\* HeatTransferAgent.execute_task, lines 55-69.  The call of line 57 is
\* outside the try of line 65: its exception leaves execute_task.  Nothing
\* in the try raises.
HeatTransferExecuteTask(k, task_description) ==
    LET r == QueryDocumentRag(k, task_description, AgentK)
    IN  IF k.vector_store.some /\ r.raised
        THEN TaskRaised
        ELSE TaskReturned("success", RagChunks(k, r))

\* ReactorDesignAgent.execute_task, lines 55-69: the same statements.
ReactorDesignExecuteTask(k, task_description) ==
    LET r == QueryDocumentRag(k, task_description, AgentK)
    IN  IF k.vector_store.some /\ r.raised
        THEN TaskRaised
        ELSE TaskReturned("success", RagChunks(k, r))

\* An agent holding object p as its knowledge_base executes a task.
ExecuteTask(agent, p, task_description) ==
    /\ Racing = {}
    /\ kb[p].pc = "done"
    /\ answer = NoAnswer /\ reply = NoReply
    /\ LET r == IF agent = "HeatTransferAgent"
                THEN HeatTransferExecuteTask(kb[p], task_description)
                ELSE ReactorDesignExecuteTask(kb[p], task_description)
       IN  reply' = [agent |-> agent, inst |-> p, raised |-> r.raised,
                     status |-> r.status,
                     rag_context_used |-> r.rag_context_used]
    /\ UNCHANGED <<kb, chunksFile, faissFile, answer, extraction, chunking>>

\* The cache directory as an earlier run that built pdf left it.
EarlierRunOf(pdf) ==
    LET chunks == AllContentChunks(pdf)
    IN  <<PickleDump(chunks, 0), WriteIndex(IndexFlatL2(EncodeAll(chunks)), 0)>>

InitAgents ==
    /\ kb = [p \in Insts |-> NewKb]
    /\ \E c \in InitialCaches \cup {EarlierRunOf("b/perry.pdf")} :
           chunksFile = c[1] /\ faissFile = c[2]
    /\ answer = NoAnswer
    /\ reply = NoReply
    /\ extraction = NoExtraction
    /\ chunking = NoChunking

\* One caller constructs knowledge bases and hands them to agents.
NextAgents ==
    \E p \in Insts :
        \/ \E a \in CtorArgs : ConstructAlone(p, a[1], a[2])
        \/ ConstructAloneRaises(p)
        \/ Steps(p)
        \/ \E agent \in Agents, task \in QueryTexts : ExecuteTask(agent, p, task)

SpecAgents == InitAgents /\ [][NextAgents]_vars

\* The fragments of the documents.
CorpusFragments ==
    UNION {{AllContentChunks(pdf)[i] : i \in 1..Len(AllContentChunks(pdf))} :
               pdf \in {q \in PdfPaths : Readable(q)}}

\* C17: whatever the state of its knowledge base, execute_task of either
\* agent returns, with status "success" and a rag_context_used that is
\* empty or holds fragments of the knowledge base's corpus only, never the
\* sentinel.
C17_AgentsDegradeToNoContext ==
    reply # NoReply =>
        /\ ~reply.raised
        /\ reply.status = "success"
        /\ \A j \in 1..Len(reply.rag_context_used) :
               /\ reply.rag_context_used[j] # SentinelMsg
               /\ \E i \in 1..Len(kb[reply.inst].text_chunks) :
                      reply.rag_context_used[j] = kb[reply.inst].text_chunks[i]

\* The part of C17 that does not depend on the cache having been loaded
\* unvalidated: the sentinel is never passed on.
C17_SentinelNeverPassedOn ==
    reply # NoReply =>
        \A j \in 1..Len(reply.rag_context_used) :
            reply.rag_context_used[j] # SentinelMsg

====
